---- MODULE Spec2Model ----
(***************************************************************************)
(* Model of the api-version axum middleware (src/src/lib.rs):              *)
(*   - ApiVersions::new and is_monotonically_increasing,                   *)
(*   - the XApiVersion header decoder (regex VERSION, parse::<u16>),       *)
(*   - ApiVersionService::call, cut at its await points.                   *)
(* Strings are sequences of one-character strings, so that starts_with,    *)
(* split('?'), format! and the regex are computed as the code computes     *)
(* them.                                                                   *)
(***************************************************************************)
EXTENDS Integers, Sequences, FiniteSets, TLC

VARIABLES
    arg,      \* the array handed to ApiVersions::new
    built,    \* what ApiVersions::new produced: the value, or the panic
    hdrIn,    \* the header values handed to XApiVersion::decode
    decoded,  \* what XApiVersion::decode returned
    slot      \* the requests in flight, one record per call of the service

vars == <<arg, built, hdrIn, decoded, slot>>

----------------------------------------------------------------------------
(* Bounds of the model.                                                    *)

\* longest array handed to ApiVersions::new
MaxVersions == 3
\* longest header value handed to XApiVersion::decode on its own
MaxHeaderLen == 6
\* requests in flight at once in the concurrent specification
MaxRequests == 2

(* Program constants.                                                      *)

\* versions[N - 1] < 10_000
VersionLimit == 10000
\* u16
U16Limit == 65536
\* \d{1,4}
MaxDigits == 4

----------------------------------------------------------------------------
(* Strings.                                                                *)

Digits == <<"0", "1", "2", "3", "4", "5", "6", "7", "8", "9">>

DigitChars == {Digits[i] : i \in 1..10}

DigitVal(c) == (CHOOSE i \in 1..10 : Digits[i] = c) - 1

\* A byte outside visible ASCII, kept as one opaque character.
OpaqueByte == "\\x80"

\* str::starts_with
StartsWith(s, p) == Len(p) <= Len(s) /\ SubSeq(s, 1, Len(p)) = p

\* Display for u16, as format!("{version}") prints it
RECURSIVE ToDecimal(_)
ToDecimal(n) ==
    IF n < 10 THEN <<Digits[n + 1]>>
    ELSE ToDecimal(n \div 10) \o <<Digits[(n % 10) + 1]>>

\* str::split(c): every segment between occurrences of c
RECURSIVE SplitFrom(_, _, _)
SplitFrom(s, c, cur) ==
    IF s = <<>> THEN <<cur>>
    ELSE IF Head(s) = c THEN <<cur>> \o SplitFrom(Tail(s), c, <<>>)
    ELSE SplitFrom(Tail(s), c, Append(cur, Head(s)))

Split(s, c) == SplitFrom(s, c, <<>>)

\* request.uri().path(): the path-and-query up to the first '?'
UriPath(uri) == Split(uri, "?")[1]

None == [some |-> FALSE, val |-> 0]

Some(v) == [some |-> TRUE, val |-> v]

----------------------------------------------------------------------------
(* ApiVersions::new                                                        *)

RECURSIVE MonoLoop(_, _)
MonoLoop(versions, n) ==
    IF n < Len(versions)
    THEN IF versions[n] >= versions[n + 1] THEN FALSE
         ELSE MonoLoop(versions, n + 1)
    ELSE TRUE

\* mutant: equal neighbours accepted (> in place of >=)
is_monotonically_nondecreasing(versions) ==
    \A n \in 1..(Len(versions) - 1) : ~(versions[n] > versions[n + 1])

is_monotonically_increasing(versions) ==
    IF Len(versions) < 2 THEN TRUE ELSE MonoLoop(versions, 1)

Panic(msg) == [ok |-> FALSE, msg |-> msg, versions |-> <<>>]

\* the last of the three assertions
InRange(versions) == versions[Len(versions)] < VersionLimit

ApiVersionsNew(versions) ==
    IF Len(versions) = 0
    THEN Panic("API versions must not be empty")
    ELSE IF ~is_monotonically_increasing(versions)
    THEN Panic("API versions must be strictly monotonically increasing")
    ELSE IF ~InRange(versions)
    THEN Panic("API versions must be within 0u16..10_000")
    ELSE [ok |-> TRUE, msg |-> "", versions |-> versions]

Unbuilt == [ok |-> FALSE, msg |-> "unbuilt", versions |-> <<>>]

----------------------------------------------------------------------------
(* XApiVersion::decode                                                     *)

\* HeaderValue::to_str: visible ASCII only
ToStr(v) ==
    IF \E i \in 1..Len(v) : v[i] = OpaqueByte THEN None ELSE Some(v)

\* VERSION.captures(s).and_then(|c| c.get(1)) for ^v(\d{1,4})$
VersionCapture(s) ==
    IF /\ Len(s) >= 2
       /\ Len(s) <= 1 + MaxDigits
       /\ s[1] = "v"
       /\ \A i \in 2..Len(s) : s[i] \in DigitChars
    THEN Some(Tail(s))
    ELSE None

\* str::parse::<u16> on a string of digits: overflow is an error
RECURSIVE ParseAcc(_, _)
ParseAcc(ds, acc) ==
    IF ds = <<>> THEN Some(acc)
    ELSE IF Head(ds) \notin DigitChars THEN None
    ELSE LET next == acc * 10 + DigitVal(Head(ds))
         IN  IF next >= U16Limit THEN None ELSE ParseAcc(Tail(ds), next)

ParseU16(ds) == IF ds = <<>> THEN None ELSE ParseAcc(ds, 0)

\* values: the header's values in order; decode reads the first one only
XApiVersionDecode(values) ==
    IF values = <<>> THEN None
    ELSE LET s == ToStr(values[1])
         IN  IF ~s.some THEN None
             ELSE LET m == VersionCapture(s.val)
                  IN  IF ~m.some THEN None ELSE ParseU16(m.val)

----------------------------------------------------------------------------
(* ApiVersionService::call                                                 *)

\* mutant: only a whole segment "/v{version}/" counts as a prefix
HasVersionSegment(versions, path) ==
    \E i \in 1..Len(versions) :
        StartsWith(path, <<"/", "v">> \o ToDecimal(versions[i]) \o <<"/">>)

\* versions.iter().any(|version| path.starts_with(&format!("/v{version}")))
HasVersionPrefix(versions, path) ==
    \E i \in 1..Len(versions) :
        StartsWith(path, <<"/", "v">> \o ToDecimal(versions[i]))

\* mutant: a range test in place of the membership test
ContainsUpToLast(versions, version) == version <= versions[Len(versions)]

\* versions.contains(version)
Contains(versions, version) ==
    \E i \in 1..Len(versions) : versions[i] = version

\* the decoded header value, or else versions.last()
ResolveVersion(versions, header) ==
    LET d == XApiVersionDecode(header)
    IN  IF d.some THEN d.val ELSE versions[Len(versions)]

\* the new path-and-query built from the old one and the version
RewritePaq(paq, version) ==
    LET paq_parts == Split(paq, "?")
        path      == paq_parts[1]
        prefix    == <<"/", "v">> \o ToDecimal(version)
    IN  IF Len(paq_parts) >= 2
        THEN prefix \o path \o <<"?">> \o paq_parts[2]
        ELSE IF path # <<"/">>
        THEN prefix \o path
        ELSE prefix

\* a response made by the middleware itself
MwResponse(status, text, num) ==
    [by |-> "middleware", status |-> status, text |-> text, num |-> num]

BadRequest ==
    MwResponse(400, "path must not start with version prefix like '/v0'", -1)

NotFound(version) == MwResponse(404, "unknown version", version)

InternalServerError == MwResponse(500, "", -1)

NoResponse == [by |-> "nobody", status |-> 0, text |-> "", num |-> -1]

\* the router of the integration test, as the next stage
Router(uri) ==
    LET path == UriPath(uri)
        ok(text) == [by |-> "inner", status |-> 200, text |-> text, num |-> -1]
    IN  IF path = <<"/">> THEN ok("0")
        ELSE IF path = <<"/", "v", "0", "/", "t", "e", "s", "t">> THEN ok("0")
        ELSE IF path = <<"/", "v", "1", "/", "t", "e", "s", "t">> THEN ok("1")
        ELSE IF path = <<"/", "f", "o", "o">> THEN ok("foo")
        ELSE [by |-> "inner", status |-> 404, text |-> "", num |-> -1]

\* Err(S::Error) of the next stage
InnerError == [by |-> "inner", status |-> 0, text |-> "Err", num |-> -1]

\* what the next stage may answer to a request
InnerReplies(uri) == {Router(uri), InnerError}

\* what ApiVersionFilter::filter may return: Ok(true), Ok(false), Err(_)
FilterResults == {"true", "false", "err"}

\* A request slot: uri is the request's URI (rewritten in place), orig the URI
\* it arrived with, filterArgs and innerArgs the URIs the filter and the next
\* stage were called with, version the resolved version (-1: none resolved).
Idle ==
    [pc |-> "idle", uri |-> <<>>, orig |-> <<>>, header |-> <<>>,
     filterArgs |-> <<>>, filterRes |-> "", headerRead |-> FALSE,
     version |-> -1, rewrote |-> FALSE, innerArgs |-> <<>>,
     innerReply |-> NoResponse, response |-> NoResponse, resub |-> FALSE]

Fresh(uri, header, resub) ==
    [Idle EXCEPT !.pc = "called", !.uri = uri, !.orig = uri,
                 !.header = header, !.resub = resub]

\* the scope check, up to the await of the filter
AfterScopeCheck(versions, s) ==
    IF HasVersionPrefix(versions, UriPath(s.uri))
    THEN [s EXCEPT !.pc = "done", !.response = BadRequest]
    ELSE [s EXCEPT !.pc = "filter", !.filterArgs = Append(@, s.uri)]

\* Err(error): 500, the next stage is not called
FilterFailed(s, res) ==
    [s EXCEPT !.pc = "done", !.filterRes = res,
              !.response = InternalServerError]

\* !pass_through: inner.call(request) with the request as it came
ForwardUnmodified(s, res) ==
    [s EXCEPT !.pc = "inner", !.filterRes = res,
              !.innerArgs = Append(@, s.uri)]

\* the header is read, the version resolved and checked, the URI rewritten
\* and the request handed to inner.call
ResolveAndRewrite(versions, s, res) ==
    LET version == ResolveVersion(versions, s.header)
    IN  IF ~Contains(versions, version)
        THEN [s EXCEPT !.pc = "done", !.filterRes = res,
                       !.headerRead = TRUE, !.version = version,
                       !.response = NotFound(version)]
        ELSE LET uri == RewritePaq(s.uri, version)
             IN  [s EXCEPT !.pc = "inner", !.filterRes = res,
                           !.headerRead = TRUE, !.version = version,
                           !.rewrote = TRUE, !.uri = uri,
                           !.innerArgs = Append(@, uri)]

\* mutant: the filter's answer read the wrong way round
AfterFilterInverted(versions, s, res) ==
    IF res = "err" THEN FilterFailed(s, res)
    ELSE IF res = "true" THEN ForwardUnmodified(s, res)
    ELSE ResolveAndRewrite(versions, s, res)

\* the branch taken when the filter returns, up to the await of inner.call
AfterFilter(versions, s, res) ==
    IF res = "err" THEN FilterFailed(s, res)
    ELSE IF res = "false" THEN ForwardUnmodified(s, res)
    ELSE ResolveAndRewrite(versions, s, res)

\* mutant: an error of the next stage turned into a 500 response
AfterInnerMapped(s, reply) ==
    [s EXCEPT !.pc = "done", !.innerReply = reply,
              !.response = IF reply = InnerError THEN InternalServerError
                           ELSE reply]

\* the next stage's answer is handed back as it is
AfterInner(s, reply) ==
    [s EXCEPT !.pc = "done", !.innerReply = reply, !.response = reply]

----------------------------------------------------------------------------
(* Actions.                                                                *)

New ==
    /\ built = Unbuilt
    /\ built' = ApiVersionsNew(arg)
    /\ UNCHANGED <<arg, hdrIn, decoded, slot>>

Decode ==
    /\ decoded = [some |-> FALSE, val |-> -1]
    /\ decoded' = XApiVersionDecode(hdrIn)
    /\ UNCHANGED <<arg, built, hdrIn, slot>>

\* call(): a request arrives and its future is created
Call(r, U, H) ==
    /\ built.ok
    /\ slot[r].pc = "idle"
    /\ \E uri \in U, header \in H :
           slot' = [slot EXCEPT ![r] = Fresh(uri, header, FALSE)]
    /\ UNCHANGED <<arg, built, hdrIn, decoded>>

ScopeCheck(r) ==
    /\ slot[r].pc = "called"
    /\ slot' = [slot EXCEPT ![r] = AfterScopeCheck(built.versions, slot[r])]
    /\ UNCHANGED <<arg, built, hdrIn, decoded>>

FilterReturn(r) ==
    /\ slot[r].pc = "filter"
    /\ \E res \in FilterResults :
           slot' = [slot EXCEPT ![r] = AfterFilter(built.versions, slot[r], res)]
    /\ UNCHANGED <<arg, built, hdrIn, decoded>>

InnerReturn(r) ==
    /\ slot[r].pc = "inner"
    /\ \E reply \in InnerReplies(slot[r].innerArgs[Len(slot[r].innerArgs)]) :
           slot' = [slot EXCEPT ![r] = AfterInner(slot[r], reply)]
    /\ UNCHANGED <<arg, built, hdrIn, decoded>>

\* the future is finished and dropped; nothing of the request is kept
Complete(r) ==
    /\ slot[r].pc = "done"
    /\ slot' = [slot EXCEPT ![r] = Idle]
    /\ UNCHANGED <<arg, built, hdrIn, decoded>>

\* the URI a rewrite produced comes back as a new request
Resubmit(r, H) ==
    /\ slot[r].pc = "done"
    /\ slot[r].rewrote
    /\ \E header \in H :
           slot' = [slot EXCEPT ![r] = Fresh(slot[r].uri, header, TRUE)]
    /\ UNCHANGED <<arg, built, hdrIn, decoded>>

----------------------------------------------------------------------------
(* Inputs.                                                                 *)

Undecoded == [some |-> FALSE, val |-> -1]

\* u16 values arrays are built from
VersionValues == {0, 1, 2, 9999, 10000, 65535}

\* every array of at most n of them
ArraysUpTo(n) == UNION {[1..k -> VersionValues] : k \in 0..n}

\* the arrays the service is built from in the request specifications
Configs == {<<0, 1>>, <<1, 2>>, <<0>>, <<1, 10>>, <<2, 9999>>, <<>>}

HeaderAlphabet == {"v", "0", "1", "9", "x"}

StringsUpTo(n) == UNION {[1..k -> HeaderAlphabet] : k \in 0..n}

v0 == <<"v", "0">>
v1 == <<"v", "1">>
v2 == <<"v", "2">>
v00 == <<"v", "0", "0">>
v01 == <<"v", "0", "1">>
v9999 == <<"v", "9", "9", "9", "9">>
v10000 == <<"v", "1", "0", "0", "0", "0">>
vx == <<"v", "x">>

\* the x-api-version header of a request: its values, none when absent
Headers ==
    {<<>>, <<v0>>, <<v1>>, <<v2>>, <<v00>>, <<v01>>, <<v9999>>, <<v10000>>,
     <<vx>>, <<<<>>>>, <<<<"v", OpaqueByte>>>>, <<v1, v0>>}

\* the header values decode is tried on, on its own
DecodeInputs ==
    {<<>>, <<<<"v", OpaqueByte>>>>, <<v1, v0>>, <<vx, v0>>}
        \cup {<<s>> : s \in StringsUpTo(MaxHeaderLen)}

RootPath == <<"/">>
TestPath == <<"/", "t", "e", "s", "t">>
FooPath == <<"/", "f", "o", "o">>
V0TestPath == <<"/", "v", "0", "/", "t", "e", "s", "t">>
V1Path == <<"/", "v", "1">>
V10Path == <<"/", "v", "1", "0">>
V2TestPath == <<"/", "v", "2", "/", "t", "e", "s", "t">>

Paths == {RootPath, TestPath, FooPath, V0TestPath, V1Path, V10Path, V2TestPath}

NoQuery == <<>>
EmptyQuery == <<"?">>
SimpleQuery == <<"?", "x", "=", "1">>
NestedQuery == <<"?", "a", "?", "b">>

QuerySuffixes == {NoQuery, EmptyQuery, SimpleQuery, NestedQuery}

\* request URIs in origin form: a path, then maybe '?' and a query
Uris == {p \o q : p \in Paths, q \in QuerySuffixes}

\* the smaller inputs of the concurrent specification
ConcUris == {RootPath, TestPath \o SimpleQuery, V1Path, FooPath}

ConcHeaders == {<<>>, <<v0>>, <<v2>>}

----------------------------------------------------------------------------
(* Specifications.                                                         *)

\* ApiVersions::new on every small array
InitNew ==
    /\ arg \in ArraysUpTo(MaxVersions)
    /\ built = Unbuilt
    /\ hdrIn = <<>>
    /\ decoded = Undecoded
    /\ slot = [r \in 1..1 |-> Idle]

SpecNew == InitNew /\ [][New]_vars

\* XApiVersion::decode on every short header value
InitDecode ==
    /\ arg = <<>>
    /\ built = Unbuilt
    /\ hdrIn \in DecodeInputs
    /\ decoded = Undecoded
    /\ slot = [r \in 1..1 |-> Idle]

SpecDecode == InitDecode /\ [][Decode]_vars

\* one service, one request after the other
Init ==
    /\ arg \in Configs
    /\ built = Unbuilt
    /\ hdrIn = <<>>
    /\ decoded = Undecoded
    /\ slot = [r \in 1..1 |-> Idle]

Next ==
    \/ New
    \/ Call(1, Uris, Headers)
    \/ ScopeCheck(1)
    \/ FilterReturn(1)
    \/ InnerReturn(1)
    \/ Complete(1)
    \/ Resubmit(1, Headers)

Spec == Init /\ [][Next]_vars

\* one service, MaxRequests requests in flight, steps interleaved
InitConc ==
    /\ arg = <<0, 1>>
    /\ built = Unbuilt
    /\ hdrIn = <<>>
    /\ decoded = Undecoded
    /\ slot = [r \in 1..MaxRequests |-> Idle]

NextConc ==
    \/ New
    \/ \E r \in 1..MaxRequests : Call(r, ConcUris, ConcHeaders)
    \/ \E r \in 1..MaxRequests : ScopeCheck(r)
    \/ \E r \in 1..MaxRequests : FilterReturn(r)
    \/ \E r \in 1..MaxRequests : InnerReturn(r)
    \/ \E r \in 1..MaxRequests : Complete(r)

SpecConc == InitConc /\ [][NextConc]_vars

----------------------------------------------------------------------------
(* Vocabulary of the claims.                                               *)

Slots == DOMAIN slot

\* the configured version set
VersionSet == {built.versions[i] : i \in 1..Len(built.versions)}

\* its highest element
Highest == CHOOSE n \in VersionSet : \A m \in VersionSet : m <= n

\* 'v', then 1 to 4 decimal digits, no leading zero but in "v0"
WellFormedDesignator(s) ==
    /\ Len(s) >= 2
    /\ Len(s) <= 5
    /\ s[1] = "v"
    /\ \A i \in 2..Len(s) : s[i] \in DigitChars
    /\ (Len(s) > 2 => s[2] # "0")

\* the number a string of digits denotes
RECURSIVE DecimalValue(_)
DecimalValue(ds) ==
    IF ds = <<>> THEN 0
    ELSE 10 * DecimalValue(SubSeq(ds, 1, Len(ds) - 1)) + DigitVal(ds[Len(ds)])

\* the header is present and its value is a well-formed designator
HeaderWellFormed(values) ==
    values # <<>> /\ WellFormedDesignator(values[1])

\* the path begins with "/v{n}" for a version n of the set
CarriesVersionPrefix(uri) ==
    \E n \in VersionSet : StartsWith(UriPath(uri), <<"/", "v">> \o ToDecimal(n))

HasQuery(uri) == \E i \in 1..Len(uri) : uri[i] = "?"

\* what follows the first '?'
QueryOf(uri) ==
    LET i == CHOOSE k \in 1..Len(uri) :
                 uri[k] = "?" /\ \A j \in 1..(k - 1) : uri[j] # "?"
    IN  SubSeq(uri, i + 1, Len(uri))

\* the scope check of the request in slot r has run
Checked(r) == slot[r].pc \notin {"idle", "called"}

Rejected(r) ==
    /\ slot[r].response.by = "middleware"
    /\ slot[r].response.status \in {400, 404, 500}
    /\ slot[r].innerArgs = <<>>

PassedThrough(r) ==
    /\ ~slot[r].rewrote
    /\ slot[r].innerArgs = <<slot[r].orig>>
    /\ slot[r].uri = slot[r].orig

Rewritten(r) ==
    /\ slot[r].rewrote
    /\ slot[r].uri # slot[r].orig
    /\ slot[r].innerArgs = <<slot[r].uri>>

----------------------------------------------------------------------------
(* Claims.                                                                 *)

\* C1: once the version of a request is resolved, it is the number of the
\* x-api-version header when the header is present and well-formed ('v', 1 to
\* 4 digits, no leading zero but in "v0"), and otherwise the highest version
\* of the set; a header that is not well-formed never leads to an error
\* response of the middleware.
C1_VersionFromHeaderOrHighest ==
    \A r \in Slots :
        slot[r].version # -1 =>
            /\ slot[r].version =
                   IF HeaderWellFormed(slot[r].header)
                   THEN DecimalValue(Tail(slot[r].header[1]))
                   ELSE Highest
            /\ (~HeaderWellFormed(slot[r].header)
                    => slot[r].response.by # "middleware")

\* C2: once the version of a request is resolved, a version outside the set
\* is answered 404 by the middleware with the next stage never called, and a
\* version inside the set is never answered 404 by the middleware.
C2_UnknownVersionIs404 ==
    \A r \in Slots :
        slot[r].version # -1 =>
            IF slot[r].version \notin VersionSet
            THEN /\ slot[r].pc = "done"
                 /\ slot[r].response = NotFound(slot[r].version)
                 /\ slot[r].innerArgs = <<>>
            ELSE ~(slot[r].response.by = "middleware"
                       /\ slot[r].response.status = 404)

\* C2 witness: versions [0, 1] and header v2 end in 404
C2_Witness ==
    \E r \in Slots :
        /\ built.versions = <<0, 1>>
        /\ slot[r].header = <<v2>>
        /\ slot[r].version = 2
        /\ slot[r].response.status = 404

C4_PrefixedPathReachesHandler ==
    \A r \in Slots :
        (/\ built.versions = <<0, 1>>
         /\ slot[r].orig = V0TestPath
         /\ slot[r].header = <<>>
         /\ slot[r].pc = "done") =>
            /\ slot[r].innerArgs = <<V0TestPath>>
            /\ slot[r].response.by = "inner"
            /\ (slot[r].innerReply = Router(V0TestPath) =>
                    /\ slot[r].response.status = 200
                    /\ slot[r].response.text = "0")

\* C5: the path of a rewritten URI is "/v{n}" when the original path is "/",
\* and "/v{n}" followed by the original path otherwise, with or without a
\* query string.
C5_RewrittenPath ==
    \A r \in Slots :
        slot[r].rewrote =>
            UriPath(slot[r].uri) =
                IF UriPath(slot[r].orig) = RootPath
                THEN <<"/", "v">> \o ToDecimal(slot[r].version)
                ELSE <<"/", "v">> \o ToDecimal(slot[r].version)
                         \o UriPath(slot[r].orig)

\* C6: a rewritten URI has a query string exactly when the original has one,
\* and then the same one, character for character.
C6_QueryPreserved ==
    \A r \in Slots :
        slot[r].rewrote =>
            /\ HasQuery(slot[r].uri) <=> HasQuery(slot[r].orig)
            /\ (HasQuery(slot[r].orig)
                    => QueryOf(slot[r].uri) = QueryOf(slot[r].orig))

\* C7: decode succeeds exactly on a present header whose value is a
\* well-formed designator, and then yields its number.
C7_DecodeExactlyWellFormed ==
    decoded # Undecoded =>
        /\ decoded.some <=> HeaderWellFormed(hdrIn)
        /\ (decoded.some => decoded.val = DecimalValue(Tail(hdrIn[1])))

\* C8: ApiVersions::new succeeds exactly on the arrays that are non-empty,
\* strictly increasing and have their maximum below 10,000; a failure names a
\* rule the array violates; a value that exists is the array given, non-empty,
\* strictly increasing, with every element below 10,000.
C8_NewExactlyValid ==
    built # Unbuilt =>
        LET elems    == {arg[i] : i \in 1..Len(arg)}
            nonEmpty == Len(arg) > 0
            strict   == \A i, j \in 1..Len(arg) : i < j => arg[i] < arg[j]
            bounded  == \A e \in elems : e < 10000
        IN  /\ built.ok <=> (nonEmpty /\ strict /\ bounded)
            /\ (built.ok =>
                    /\ built.versions = arg
                    /\ Len(built.versions) > 0
                    /\ \A i \in 1..Len(built.versions) :
                           built.versions[i] < 10000
                    /\ \A i, j \in 1..Len(built.versions) :
                           i < j => built.versions[i] < built.versions[j])
            /\ (~built.ok =>
                    \/ built.msg = "API versions must not be empty"
                           /\ ~nonEmpty
                    \/ built.msg = "API versions must be strictly monotonically increasing"
                           /\ ~strict
                    \/ built.msg = "API versions must be within 0u16..10_000"
                           /\ ~bounded)

\* C8 witness: a valid array of three was accepted
C8_Witness == built.ok /\ built.versions = <<0, 1, 9999>>

\* C9: for a request past the scope check the filter is called once, with the
\* original URI, and its answer selects the branch: an error gives 500 with the
\* next stage not called; false forwards the URI as it came, with no header
\* read, no version resolved and no response of the middleware; only true
\* leads to version resolution and rewriting.
C9_FilterSelectsBranch ==
    \A r \in Slots :
        (Checked(r) /\ ~CarriesVersionPrefix(slot[r].orig)) =>
            /\ slot[r].filterArgs = <<slot[r].orig>>
            /\ (slot[r].filterRes = "err" =>
                    /\ slot[r].pc = "done"
                    /\ slot[r].response = InternalServerError
                    /\ slot[r].innerArgs = <<>>)
            /\ (slot[r].filterRes = "false" =>
                    /\ slot[r].innerArgs = <<slot[r].orig>>
                    /\ slot[r].uri = slot[r].orig
                    /\ ~slot[r].headerRead
                    /\ slot[r].version = -1
                    /\ slot[r].response.by # "middleware")
            /\ (slot[r].filterRes = "true" =>
                    /\ slot[r].headerRead
                    /\ slot[r].version # -1)
            /\ ((slot[r].headerRead \/ slot[r].rewrote
                     \/ slot[r].version # -1)
                    => slot[r].filterRes = "true")

\* C9 witness: the filter said false for a request whose header names a
\* version outside the set, and the next stage answered it
C9_Witness ==
    \E r \in Slots :
        /\ slot[r].filterRes = "false"
        /\ slot[r].header = <<v2>>
        /\ 2 \notin VersionSet
        /\ slot[r].pc = "done"
        /\ slot[r].response.by = "inner"

====
